---- MODULE Spec2Model ----
(***************************************************************************)
(* PyCmdMessenger.CmdMessenger: the send-side encoders, the receive-side   *)
(* frame parser and decoders, and the session that shares one serial       *)
(* stream between callers and the listener process.                        *)
(*                                                                         *)
(* Bytes are the integers 0..255, a bytes object is a sequence of them.  A *)
(* Python value is a record [t, n, s]: t its type, n its number (int,      *)
(* float, bool), s its bytes (str, bytes).  Floats are the integral ones   *)
(* of magnitude below 2^20, which float32 and float64 both hold exactly.   *)
(***************************************************************************)
EXTENDS Integers, Sequences, FiniteSets, TLC

(***************************************************************************)
(* Bounds of the model.                                                    *)
(***************************************************************************)
MaxPayload == 2   \* longest str / bytes argument of a send() call
MaxArgs == 2      \* most arguments, and most explicit formats, of a send()
MaxStream == 4    \* longest free byte stream fed to a lone receive()
MaxFrames == 2    \* frames the device sends while callers and listener run
MaxWrites == 1    \* frames the callers send while callers and listener run

(***************************************************************************)
(* The separator bytes (the constructor's defaults) and NUL.               *)
(***************************************************************************)
_byte_field_sep == 44
_byte_command_sep == 59
_byte_escape_sep == 47
NUL == 0

_escaped_characters ==
    {_byte_field_sep, _byte_command_sep, _byte_escape_sep, NUL}

\* The bytes bytes.strip() and int() / float() treat as white space.
Whitespace == {9, 10, 11, 12, 13, 32}
Digits == 48..57

(***************************************************************************)
(* Python values and the outcome of a call that may raise.                 *)
(***************************************************************************)
PyInt(n) == [t |-> "int", n |-> n, s |-> <<>>]
PyFloat(n) == [t |-> "float", n |-> n, s |-> <<>>]
PyBool(n) == [t |-> "bool", n |-> n, s |-> <<>>]
PyStr(s) == [t |-> "str", n |-> 0, s |-> s]
PyBytes(s) == [t |-> "bytes", n |-> 0, s |-> s]
\* A float the model's number domain does not hold (non-integral, huge).
PyOtherFloat == [t |-> "float?", n |-> 0, s |-> <<>>]

Ok(v) == [ok |-> TRUE, err |-> "", val |-> v]
Raise(e) == [ok |-> FALSE, err |-> e, val |-> <<>>]

(***************************************************************************)
(* Helpers on byte strings.                                                *)
(***************************************************************************)
RECURSIVE Pow(_, _)
Pow(b, k) == IF k = 0 THEN 1 ELSE b * Pow(b, k - 1)

Abs(n) == IF n < 0 THEN -n ELSE n

RECURSIVE Flatten(_)
Flatten(ss) == IF ss = <<>> THEN <<>> ELSE Head(ss) \o Flatten(Tail(ss))

RECURSIVE JoinWith(_, _)
JoinWith(sep, ss) ==
    IF ss = <<>> THEN <<>>
    ELSE IF Len(ss) = 1 THEN Head(ss)
    ELSE Head(ss) \o <<sep>> \o JoinWith(sep, Tail(ss))

RECURSIVE LStrip(_, _)
LStrip(chars, s) ==
    IF s # <<>> /\ Head(s) \in chars THEN LStrip(chars, Tail(s)) ELSE s

RECURSIVE RStrip(_, _)
RStrip(chars, s) ==
    IF s # <<>> /\ s[Len(s)] \in chars
    THEN RStrip(chars, SubSeq(s, 1, Len(s) - 1)) ELSE s

StripChars(chars, s) == RStrip(chars, LStrip(chars, s))

RECURSIVE NatToStr(_)
NatToStr(n) ==
    IF n < 10 THEN <<48 + n>> ELSE NatToStr(n \div 10) \o <<48 + (n % 10)>>

\* "{}".format(n) of an int.
IntToStr(n) == IF n < 0 THEN <<45>> \o NatToStr(-n) ELSE NatToStr(n)

RECURSIVE DigitsVal(_, _)
DigitsVal(s, acc) ==
    IF s = <<>> THEN acc ELSE DigitsVal(Tail(s), 10 * acc + (Head(s) - 48))

AllDigits(s) == s # <<>> /\ \A i \in 1..Len(s) : s[i] \in Digits

\* int(text): white space around, an optional sign, decimal digits.
IsIntText(s) ==
    LET u == StripChars(Whitespace, s)
    IN  /\ u # <<>>
        /\ AllDigits(IF Head(u) \in {43, 45} THEN Tail(u) ELSE u)

IntTextVal(s) ==
    LET u == StripChars(Whitespace, s)
    IN  IF Head(u) = 45 THEN -DigitsVal(Tail(u), 0)
        ELSE IF Head(u) = 43 THEN DigitsVal(Tail(u), 0)
        ELSE DigitsVal(u, 0)

\* int(value) and float(value) on the model's values (floats are integral).
ToNumber(value) ==
    IF value.t \in {"int", "float", "bool"} THEN Ok(value.n)
    ELSE IF IsIntText(value.s) THEN Ok(IntTextVal(value.s))
    ELSE Raise("ValueError")

(***************************************************************************)
(* The board: the serial connection plus the declared widths and bounds    *)
(* of the device's C types.  A board is a record of the byte widths and    *)
(* of the declared float / double maxima; the pack formats and the integer *)
(* bounds follow from the widths.                                          *)
(***************************************************************************)
Boards ==
    { [int_bytes |-> 1, long_bytes |-> 2, float_bytes |-> 4, double_bytes |-> 4,
       float_max |-> 1000, double_max |-> 1000],
      [int_bytes |-> 1, long_bytes |-> 2, float_bytes |-> 4, double_bytes |-> 8,
       float_max |-> 1000, double_max |-> 100000] }

IntFormat(size, signed) == [size |-> size, signed |-> signed]

int_type(b) == IntFormat(b.int_bytes, TRUE)
unsigned_int_type(b) == IntFormat(b.int_bytes, FALSE)
long_type(b) == IntFormat(b.long_bytes, TRUE)
unsigned_long_type(b) == IntFormat(b.long_bytes, FALSE)
float_type(b) == b.float_bytes
double_type(b) == b.double_bytes

int_min(b) == -Pow(2, 8 * b.int_bytes - 1)
int_max(b) == Pow(2, 8 * b.int_bytes - 1) - 1
unsigned_int_min(b) == 0
unsigned_int_max(b) == Pow(2, 8 * b.int_bytes) - 1
long_min(b) == -Pow(2, 8 * b.long_bytes - 1)
long_max(b) == Pow(2, 8 * b.long_bytes - 1) - 1
unsigned_long_min(b) == 0
unsigned_long_max(b) == Pow(2, 8 * b.long_bytes) - 1
float_min(b) == -b.float_max
float_max(b) == b.float_max
double_min(b) == -b.double_max
double_max(b) == b.double_max

(***************************************************************************)
(* struct.pack / struct.unpack.                                            *)
(***************************************************************************)
RECURSIVE LittleEndian(_, _)
LittleEndian(size, v) ==
    IF size = 0 THEN <<>>
    ELSE <<v % 256>> \o LittleEndian(size - 1, v \div 256)

RECURSIVE FromLittleEndian(_)
FromLittleEndian(bs) ==
    IF bs = <<>> THEN 0 ELSE Head(bs) + 256 * FromLittleEndian(Tail(bs))

FormatMin(fmt) == IF fmt.signed THEN -Pow(2, 8 * fmt.size - 1) ELSE 0
FormatMax(fmt) ==
    IF fmt.signed THEN Pow(2, 8 * fmt.size - 1) - 1 ELSE Pow(2, 8 * fmt.size) - 1

\* struct.pack(<integer format>, value): two's complement, little endian.
PackInt(fmt, v) ==
    IF v < FormatMin(fmt) \/ v > FormatMax(fmt) THEN Raise("struct.error")
    ELSE Ok(LittleEndian(fmt.size, v))

\* struct.unpack(<integer format>, bytes)[0].
UnpackInt(fmt, bs) ==
    IF Len(bs) # fmt.size THEN Raise("struct.error")
    ELSE LET u == FromLittleEndian(bs)
         IN  Ok(PyInt(IF fmt.signed /\ u > FormatMax(fmt)
                      THEN u - Pow(2, 8 * fmt.size) ELSE u))

RECURSIVE Log2(_)
Log2(a) == IF a < 2 THEN 0 ELSE 1 + Log2(a \div 2)

\* struct.pack("<f" / "<d", value) of an integral value, IEEE 754: the sign
\* bit, the biased exponent (8 / 11 bits), the fraction (23 / 52 bits).
PackFloat(size, n) ==
    LET a == Abs(n)
        sgn == IF n < 0 THEN 1 ELSE 0
        e == Log2(a)
        ebits == IF size = 4 THEN 8 ELSE 11
        bias == Pow(2, ebits - 1) - 1
        E == IF a = 0 THEN 0 ELSE e + bias
        \* the top 20 bits of the fraction; the lower ones are 0
        top20 == IF a = 0 THEN 0 ELSE (a - Pow(2, e)) * Pow(2, 20 - e)
        \* the top 32 bits of the word, as two 16-bit halves
        fhi == 15 - ebits            \* fraction bits in the upper half
        hi16 == sgn * 32768 + E * Pow(2, fhi) + (top20 \div Pow(2, 20 - fhi))
        lo16 == (top20 % Pow(2, 20 - fhi)) * Pow(2, fhi - 4)
        word == LittleEndian(2, lo16) \o LittleEndian(2, hi16)
    IN  IF size = 4 THEN word ELSE <<0, 0, 0, 0>> \o word

\* struct.unpack("<f" / "<d", bytes)[0].
UnpackFloat(size, bs) ==
    IF Len(bs) # size THEN Raise("struct.error")
    ELSE
    LET ebits == IF size = 4 THEN 8 ELSE 11
        bias == Pow(2, ebits - 1) - 1
        fhi == 15 - ebits
        low == IF size = 4 THEN <<>> ELSE SubSeq(bs, 1, 4)
        lo16 == FromLittleEndian(SubSeq(bs, size - 3, size - 2))
        hi16 == FromLittleEndian(SubSeq(bs, size - 1, size))
        sgn == hi16 \div 32768
        E == (hi16 % 32768) \div Pow(2, fhi)
        e == E - bias
        top20 == (hi16 % Pow(2, fhi)) * Pow(2, 20 - fhi) + (lo16 \div Pow(2, fhi - 4))
        rest0 == lo16 % Pow(2, fhi - 4) = 0 /\ \A i \in 1..Len(low) : low[i] = 0
        a == (Pow(2, 20) + top20) \div Pow(2, 20 - e)
    IN  IF E = 0 /\ top20 = 0 /\ rest0 THEN Ok(PyFloat(0))
        ELSE IF /\ rest0
                /\ e >= 0 /\ e < 20
                /\ top20 % Pow(2, 20 - e) = 0
        THEN Ok(PyFloat(IF sgn = 1 THEN -a ELSE a))
        ELSE Ok(PyOtherFloat)

(***************************************************************************)
(* The send methods: one Python value to the bytes of one field.           *)
(***************************************************************************)
\* re.sub of every byte of chars by the escape byte and that byte.
RECURSIVE EscapeSub(_, _)
EscapeSub(chars, bs) ==
    IF bs = <<>> THEN <<>>
    ELSE (IF Head(bs) \in chars THEN <<_byte_escape_sep, Head(bs)>>
          ELSE <<Head(bs)>>) \o EscapeSub(chars, Tail(bs))

\* self._escape_re: the character class of the three separators and NUL.
_escape_re == {_byte_field_sep, _byte_command_sep, _byte_escape_sep, NUL}
\* self._null_escape
_null_escape == {NUL}

\* "{}".format(value).encode("ascii")
FormatStr(value) ==
    CASE value.t = "int" -> IntToStr(value.n)
      [] value.t = "float" -> IntToStr(value.n) \o <<46, 48>>
      [] value.t = "bool" ->
            IF value.n = 1 THEN <<84, 114, 117, 101>>
            ELSE <<70, 97, 108, 115, 101>>
      [] OTHER -> value.s

\* "{:.10e}".format(value) of an integral float below 10^11.
FormatSci(n) ==
    LET ds == NatToStr(Abs(n))
        pad == [i \in 1..(11 - Len(ds)) |-> 48]
        all == ds \o pad
    IN  (IF n < 0 THEN <<45>> ELSE <<>>)
        \o <<all[1], 46>> \o SubSeq(all, 2, 11)
        \o <<101, 43, 48>> \o NatToStr(Len(ds) - 1)

_send_char(b, value) ==
    IF value.t \notin {"str", "bytes"} THEN Raise("ValueError")
    ELSE IF Len(value.s) > 0 THEN Raise("ValueError")
    \* struct.pack('c', b'') of the only value that gets here
    ELSE IF Len(value.s) # 1 THEN Raise("struct.error")
    ELSE Ok(value.s)

\* The four integer encoders differ in the board fields they read.
SendInteger(value, lo, hi, fmt) ==
    LET c == ToNumber(value)
    IN  IF value.t # "int" /\ ~c.ok THEN c
        ELSE IF c.val > hi \/ c.val < lo THEN Raise("OverflowError")
        ELSE PackInt(fmt, c.val)

_send_int(b, value) == SendInteger(value, int_min(b), int_max(b), int_type(b))

_send_unsigned_int(b, value) ==
    SendInteger(value, unsigned_int_min(b), unsigned_int_max(b),
                unsigned_int_type(b))

_send_long(b, value) ==
    SendInteger(value, long_min(b), long_max(b), long_type(b))

_send_unsigned_long(b, value) ==
    SendInteger(value, unsigned_long_min(b), unsigned_long_max(b),
                unsigned_long_type(b))

_send_float(b, value) ==
    LET c == ToNumber(value)
    IN  IF value.t # "float" /\ ~c.ok THEN c
        ELSE IF c.val > float_max(b) \/ c.val < float_min(b)
        THEN Raise("OverflowError")
        ELSE Ok(PackFloat(float_type(b), c.val))

_send_double(b, value) ==
    LET c == ToNumber(value)
    IN  IF value.t # "float" /\ ~c.ok THEN c
        ELSE IF c.val > float_max(b) \/ c.val < float_min(b)
        THEN Raise("OverflowError")
        ELSE Ok(PackFloat(double_type(b), c.val))

_send_string(b, value) ==
    Ok(EscapeSub(_escape_re,
                 IF value.t # "bytes" THEN FormatStr(value) ELSE value.s))

_send_bool(b, value) ==
    IF value.t # "bool" /\ ~(value.t \in {"int", "float"} /\ value.n \in {0, 1})
    THEN Raise("ValueError")
    ELSE Ok(<<IF value.n # 0 THEN 1 ELSE 0>>)

_send_guess(b, value) ==
    IF value.t = "float" THEN Ok(FormatSci(value.n))
    ELSE IF value.t = "bool" THEN Ok(IntToStr(value.n))
    ELSE IF value.t = "bytes" THEN Ok(value.s)
    ELSE Ok(FormatStr(value))

FormatCodes == {"c", "i", "I", "l", "L", "f", "d", "s", "?", "g"}

\* self._send_methods[code](value)
_send_methods(b, code, value) ==
    CASE code = "c" -> _send_char(b, value)
      [] code = "i" -> _send_int(b, value)
      [] code = "I" -> _send_unsigned_int(b, value)
      [] code = "l" -> _send_long(b, value)
      [] code = "L" -> _send_unsigned_long(b, value)
      [] code = "f" -> _send_float(b, value)
      [] code = "d" -> _send_double(b, value)
      [] code = "s" -> _send_string(b, value)
      [] code = "?" -> _send_bool(b, value)
      [] code = "g" -> _send_guess(b, value)
      [] OTHER -> Raise("KeyError")

(***************************************************************************)
(* The session's configuration, as __init__ leaves it.                     *)
(***************************************************************************)
command_names == <<"kPing", "kValue">>

\* dict([(n,i) for i,n in enumerate(self.command_names)]), ids from 0
_cmd_name_to_int == [n \in {command_names[i] : i \in 1..Len(command_names)} |->
                        (CHOOSE i \in 1..Len(command_names) : command_names[i] = n) - 1]

\* The command_formats argument of __init__: "kValue" takes one int.
command_formats == [n \in {"kValue"} |-> <<"i">>]

\* self._cmd_name_to_format = {}: __init__ stores no entry in it
_cmd_name_to_format == [n \in {} |-> <<>>]

\* The arg_formats keyword: None, or the codes given.
NoFormats == [given |-> FALSE, codes |-> <<>>]
Formats(codes) == [given |-> TRUE, codes |-> codes]

\* "Figure out what formats to use for each argument", of send() and of
\* receive(): key is the command name, n the number of arguments.
ResolveFormats(arg_formats, key, n) ==
    IF arg_formats.given THEN arg_formats.codes
    ELSE IF key \in DOMAIN _cmd_name_to_format
         \* arg_formats is rebound, arg_format_list stays []
         THEN <<>>
         ELSE [i \in 1..n |-> "g"]

(***************************************************************************)
(* send(): everything up to the write.                                     *)
(***************************************************************************)
RECURSIVE EncodeFields(_, _, _, _)
\* the loop of send() over the arguments, from argument i on
EncodeFields(b, arg_format_list, args, i) ==
    IF i > Len(args) THEN Ok(<<>>)
    ELSE LET f == _send_methods(b, arg_format_list[i], args[i])
         IN  IF ~f.ok THEN f
             ELSE LET rest == EncodeFields(b, arg_format_list, args, i + 1)
                  IN  IF ~rest.ok THEN rest ELSE Ok(<<f.val>> \o rest.val)

\* SendCompile with an unknown command sent as command 0.
SendCompile_DefaultId(b, cmd, args, arg_formats) ==
    LET command_as_int ==
            IF cmd \in DOMAIN _cmd_name_to_int THEN _cmd_name_to_int[cmd] ELSE 0
        arg_format_list == ResolveFormats(arg_formats, cmd, Len(args))
    IN  IF Len(arg_format_list) # Len(args) THEN Raise("ValueError: count")
        ELSE
        LET enc == EncodeFields(b, arg_format_list, args, 1)
        IN  IF ~enc.ok THEN enc
            ELSE Ok(EscapeSub(_null_escape,
                    JoinWith(_byte_field_sep, <<IntToStr(command_as_int)>> \o enc.val)
                    \o <<_byte_command_sep>>))

\* SendCompile rejecting only too few formats.
SendCompile_TooFewOnly(b, cmd, args, arg_formats) ==
    IF cmd \notin DOMAIN _cmd_name_to_int THEN Raise("ValueError: command")
    ELSE
    LET arg_format_list == ResolveFormats(arg_formats, cmd, Len(args))
    IN  IF Len(arg_format_list) < Len(args) THEN Raise("ValueError: count")
        ELSE
        LET enc == EncodeFields(b, arg_format_list, args, 1)
        IN  IF ~enc.ok THEN enc
            ELSE Ok(EscapeSub(_null_escape,
                    JoinWith(_byte_field_sep,
                             <<IntToStr(_cmd_name_to_int[cmd])>> \o enc.val)
                    \o <<_byte_command_sep>>))

\* The bytes send() hands to board.write, or the error it raises before.
SendCompile(b, cmd, args, arg_formats) ==
    IF cmd \notin DOMAIN _cmd_name_to_int THEN Raise("ValueError: command")
    ELSE
    LET command_as_int == _cmd_name_to_int[cmd]
        arg_format_list == ResolveFormats(arg_formats, cmd, Len(args))
    IN  IF Len(arg_format_list) # Len(args) THEN Raise("ValueError: count")
        ELSE
        LET enc == EncodeFields(b, arg_format_list, args, 1)
        IN  IF ~enc.ok THEN enc
            ELSE
            LET fields == <<IntToStr(command_as_int)>> \o enc.val
                compiled_bytes ==
                    JoinWith(_byte_field_sep, fields) \o <<_byte_command_sep>>
            IN  Ok(EscapeSub(_null_escape, compiled_bytes))

(***************************************************************************)
(* The receive methods: the bytes of one field to one Python value.        *)
(***************************************************************************)
\* bytes.decode(): the model's streams are ASCII, any other byte fails
Decodes(bs) == \A i \in 1..Len(bs) : bs[i] < 128

\* str.strip() strips these ASCII characters
StrWhitespace == Whitespace \cup {28, 29, 30, 31}

_recv_char(b, value) ==
    IF Len(value) # 1 THEN Raise("struct.error") ELSE Ok(PyBytes(value))

_recv_int(b, value) == UnpackInt(int_type(b), value)
_recv_unsigned_int(b, value) == UnpackInt(unsigned_int_type(b), value)
_recv_long(b, value) == UnpackInt(long_type(b), value)
_recv_unsigned_long(b, value) == UnpackInt(unsigned_long_type(b), value)
_recv_float(b, value) == UnpackFloat(float_type(b), value)
_recv_double(b, value) == UnpackFloat(float_type(b), value)

_recv_string(b, value) ==
    IF ~Decodes(value) THEN Raise("UnicodeDecodeError")
    ELSE Ok(PyStr(StripChars(StrWhitespace, StripChars({NUL}, value))))

_recv_bool(b, value) ==
    IF Len(value) # 1 THEN Raise("struct.error")
    ELSE Ok(PyBool(IF value[1] # 0 THEN 1 ELSE 0))

\* The longest prefix of s made of digits.
RECURSIVE DigitRun(_)
DigitRun(s) ==
    IF s # <<>> /\ Head(s) \in Digits THEN <<Head(s)>> \o DigitRun(Tail(s))
    ELSE <<>>

Drop(s, k) == SubSeq(s, k + 1, Len(s))

\* float(text) of a text with a "." in it: [sign] digits "." digits
\* [e [sign] digits], white space around.  The text is read left to right:
\* the sign, the digits ip before the ".", the digits fp after it, the
\* exponent.  ok says the text is a float; its value is ip.fp * 10^ex.
Unsigned(u) == IF u # <<>> /\ Head(u) \in {43, 45} THEN Tail(u) ELSE u
IsNegative(u) == u # <<>> /\ Head(u) = 45

NotFloat == [ok |-> FALSE, neg |-> FALSE, ip |-> <<>>, fp |-> <<>>, ex |-> 0]

FloatExponent(neg, ip, fp, rest) ==
    IF Len(ip) + Len(fp) = 0 THEN NotFloat
    ELSE IF rest = <<>>
    THEN [ok |-> TRUE, neg |-> neg, ip |-> ip, fp |-> fp, ex |-> 0]
    ELSE IF Head(rest) \in {69, 101} /\ AllDigits(Unsigned(Tail(rest)))
            /\ Len(Unsigned(Tail(rest))) <= 3
    THEN [ok |-> TRUE, neg |-> neg, ip |-> ip, fp |-> fp,
          ex |-> IF IsNegative(Tail(rest))
                 THEN -DigitsVal(Unsigned(Tail(rest)), 0)
                 ELSE DigitsVal(Unsigned(Tail(rest)), 0)]
    ELSE NotFloat

FloatFraction(neg, ip, fp, afterdot) ==
    FloatExponent(neg, ip, fp, Drop(afterdot, Len(fp)))

FloatDot(neg, ip, rest) ==
    IF rest # <<>> /\ Head(rest) = 46
    THEN FloatFraction(neg, ip, DigitRun(Tail(rest)), Tail(rest))
    ELSE NotFloat

FloatWhole(neg, ip, v) == FloatDot(neg, ip, Drop(v, Len(ip)))
FloatSign(u) == FloatWhole(IsNegative(u), DigitRun(Unsigned(u)), Unsigned(u))
FloatParts(s) == FloatSign(StripChars(StrWhitespace, s))

\* The float of the digits whole before and frac after the decimal point.
FloatOfDigits(neg, whole, frac) ==
    IF (\E i \in 1..Len(frac) : frac[i] # 48) \/ Len(whole) > 7
    THEN PyOtherFloat
    ELSE IF DigitsVal(whole, 0) >= Pow(2, 20) THEN PyOtherFloat
    ELSE PyFloat(IF neg THEN -DigitsVal(whole, 0) ELSE DigitsVal(whole, 0))

\* D the digits of the text, pt the place of the decimal point in them.
FloatAtPoint(neg, D, pt) ==
    FloatOfDigits(neg,
        LStrip({48}, IF pt <= 0 THEN <<>>
                     ELSE IF pt <= Len(D) THEN SubSeq(D, 1, pt)
                     ELSE D \o [i \in 1..(pt - Len(D)) |-> 48]),
        IF pt >= Len(D) THEN <<>>
        ELSE SubSeq(D, (IF pt < 0 THEN 0 ELSE pt) + 1, Len(D)))

FloatTextVal(parts) ==
    FloatAtPoint(parts.neg, parts.ip \o parts.fp, Len(parts.ip) + parts.ex)

GuessFloat(b, value, parts) ==
    IF parts.ok THEN Ok(FloatTextVal(parts)) ELSE _recv_string(b, value)

_recv_guess(b, value) ==
    IF ~Decodes(value) THEN Raise("UnicodeDecodeError")
    ELSE IF \A i \in 1..Len(value) : value[i] # 46
    THEN (IF IsIntText(value) THEN Ok(PyInt(IntTextVal(value)))
          ELSE _recv_string(b, value))
    ELSE GuessFloat(b, value, FloatParts(value))

\* self._recv_methods[code](value)
_recv_methods(b, code, value) ==
    CASE code = "c" -> _recv_char(b, value)
      [] code = "i" -> _recv_int(b, value)
      [] code = "I" -> _recv_unsigned_int(b, value)
      [] code = "l" -> _recv_long(b, value)
      [] code = "L" -> _recv_unsigned_long(b, value)
      [] code = "f" -> _recv_float(b, value)
      [] code = "d" -> _recv_double(b, value)
      [] code = "s" -> _recv_string(b, value)
      [] code = "?" -> _recv_bool(b, value)
      [] code = "g" -> _recv_guess(b, value)
      [] OTHER -> Raise("KeyError")

(***************************************************************************)
(* receive(): the read loop, one board.read() at a time, and what follows  *)
(* it.  A read returns one byte <<b>>, or <<>> on a timeout.  msg is the   *)
(* list of fields, each the list of the reads appended to it.              *)
(***************************************************************************)
\* The locals of receive() as the loop is entered.
ReadLoopStart ==
    [msg |-> << <<>> >>, raw_msg |-> <<>>, escaped |-> FALSE,
     command_sep_found |-> FALSE, looping |-> TRUE]

AppendToLast(msg, tmp) == [msg EXCEPT ![Len(msg)] = Append(@, tmp)]

\* ReadLoopStep with the escape byte of a malformed escape dropped.
ReadLoopStep_DropEscape(st, tmp) ==
    LET r == [st EXCEPT !.raw_msg = Append(@, tmp)]
    IN  IF st.escaped
        THEN [r EXCEPT !.msg = AppendToLast(@, tmp), !.escaped = FALSE]
        ELSE IF tmp = <<_byte_escape_sep>> THEN [r EXCEPT !.escaped = TRUE]
        ELSE IF tmp = <<_byte_field_sep>> THEN [r EXCEPT !.msg = Append(@, <<>>)]
        ELSE IF tmp = <<_byte_command_sep>>
        THEN [r EXCEPT !.command_sep_found = TRUE, !.looping = FALSE]
        ELSE IF tmp = <<>> THEN [r EXCEPT !.looping = FALSE]
        ELSE [r EXCEPT !.msg = AppendToLast(@, tmp)]

\* One pass of the while loop, on the read tmp.
ReadLoopStep(st, tmp) ==
    LET r == [st EXCEPT !.raw_msg = Append(@, tmp)]
    IN  IF st.escaped
        THEN IF tmp # <<>> /\ tmp[1] \in _escaped_characters
             THEN [r EXCEPT !.msg = AppendToLast(@, tmp), !.escaped = FALSE]
             ELSE [r EXCEPT !.msg = AppendToLast(
                                        AppendToLast(@, <<_byte_escape_sep>>), tmp),
                            !.escaped = FALSE]
        ELSE IF tmp = <<_byte_escape_sep>> THEN [r EXCEPT !.escaped = TRUE]
        ELSE IF tmp = <<_byte_field_sep>> THEN [r EXCEPT !.msg = Append(@, <<>>)]
        ELSE IF tmp = <<_byte_command_sep>>
        THEN [r EXCEPT !.command_sep_found = TRUE, !.looping = FALSE]
        ELSE IF tmp = <<>> THEN [r EXCEPT !.looping = FALSE]
        ELSE [r EXCEPT !.msg = AppendToLast(@, tmp)]

\* fields = [b''.join(m) for m in msg]
RawFields(st) == [i \in 1..Len(st.msg) |-> Flatten(st.msg[i])]

\* self.command_names[int(cmd)], "unknown" on a ValueError or an
\* IndexError; a negative index counts from the end of the list.
\* CommandName of the field as read, white space and sign not accepted.
CommandName_NoStrip(field0) ==
    LET n == Len(command_names)
    IN  IF ~AllDigits(field0) \/ field0 = <<>> THEN "unknown"
        ELSE IF DigitsVal(field0, 0) >= n THEN "unknown"
        ELSE command_names[DigitsVal(field0, 0) + 1]

CommandName(field0) ==
    LET cmd == StripChars(Whitespace, field0)
        n == Len(command_names)
        idx == IntTextVal(cmd)
    IN  IF ~IsIntText(cmd) THEN "unknown"
        ELSE IF idx >= n \/ idx < -n THEN "unknown"
        ELSE command_names[(idx % n) + 1]

RECURSIVE DecodeFields(_, _, _, _)
\* the loop of receive() over fields[1:], from argument i on
DecodeFields(b, arg_format_list, argfields, i) ==
    IF i > Len(argfields) THEN Ok(<<>>)
    ELSE LET v == _recv_methods(b, arg_format_list[i], argfields[i])
         IN  IF ~v.ok THEN v
             ELSE LET rest == DecodeFields(b, arg_format_list, argfields, i + 1)
                  IN  IF ~rest.ok THEN rest ELSE Ok(<<v.val>> \o rest.val)

\* A message record, and the None of "no message".
Message(name, values, time) ==
    [none |-> FALSE, name |-> name, values |-> values, time |-> time]
None == [none |-> TRUE, name |-> "", values |-> <<>>, time |-> 0]

\* receive() after the loop: None, a message stamped with the time, or
\* the error raised.
ReceiveFinish(b, st, arg_formats, time) ==
    IF Len(st.msg) = 1 /\ Len(st.msg[1]) = 0 THEN Ok(None)
    ELSE IF ~st.command_sep_found
    THEN LET joined_raw == Flatten(st.raw_msg)
         IN  IF StripChars(Whitespace, joined_raw) = <<>> THEN Ok(None)
             ELSE IF ~Decodes(joined_raw) THEN Raise("UnicodeDecodeError")
             ELSE [Raise("PCMMangledMessageError") EXCEPT !.val = joined_raw]
    ELSE
    LET fields == RawFields(st)
        argfields == Tail(fields)
    IN  IF ~Decodes(StripChars(Whitespace, fields[1]))
        THEN Raise("UnicodeDecodeError")
        ELSE
        LET cmd_name == CommandName(fields[1])
            arg_format_list == ResolveFormats(arg_formats, cmd_name, Len(argfields))
        IN  IF Len(arg_format_list) # Len(argfields) THEN Raise("ValueError: count")
            ELSE LET received == DecodeFields(b, arg_format_list, argfields, 1)
                 IN  IF ~received.ok THEN received
                     ELSE Ok(Message(cmd_name, received.val, time))

(***************************************************************************)
(* The state.                                                              *)
(*   board     the board of the session                                    *)
(*   rx        the bytes in the serial input buffer, next to read first    *)
(*   device    the bytes the device has still to put on the line           *)
(*   tx        the bytes of each board.write, in order                     *)
(*   lock      self._lock: its owner and how often the owner holds it      *)
(*   cpc, cloc, cret   per caller thread: where it is, the locals of the   *)
(*             call it is in, what its last call returned or raised        *)
(*   lpc, lloc the listener process: where it is, its locals and its copy  *)
(*             of self._listen_delay                                       *)
(*   lref      the list the listener's copy of _received_messages names    *)
(*   handle    self._listener_thread is set                                *)
(*   listen_delay  self._listen_delay of the session, 0 before it is set   *)
(*   alive     how many listener processes the session started are running *)
(*   pref      the list the session's _received_messages names             *)
(*   lists     the lists the manager holds                                 *)
(*   now       the clock time.time() reads                                 *)
(*   appended  every message a listener appended, in order                 *)
(*   delivered every message receive_from_listener returned, in order      *)
(*   plan      the calls a lone caller is to make (SpecSend, SpecRecv)     *)
(***************************************************************************)
VARIABLES board, rx, device, tx, lock, cpc, cloc, cret, lpc, lloc, lref,
          handle, listen_delay, alive, pref, lists, now, appended, delivered,
          plan

vars == <<board, rx, device, tx, lock, cpc, cloc, cret, lpc, lloc, lref,
          handle, listen_delay, alive, pref, lists, now, appended, delivered,
          plan>>

listenerVars ==
    <<lpc, lloc, lref, handle, listen_delay, alive, pref, lists, appended,
      delivered>>

Callers == {"main", "worker"}
ListIds == {0, 1, 2}

Free == [owner |-> "free", count |-> 0]
\* A lock every thread of the callers' process may re-enter.
CanAcquire_PerProcess(who) ==
    lock.owner \in {"free", who} \cup (IF who \in Callers THEN Callers ELSE {})
CanAcquire(who) == lock.owner \in {"free", who}
Acquired(who) == [owner |-> who, count |-> lock.count + 1]
Released == IF lock.count = 1 THEN Free ELSE [lock EXCEPT !.count = @ - 1]

NoLocals ==
    [frame |-> <<>>, st |-> ReadLoopStart, formats |-> NoFormats,
     msg_list |-> <<>>]
NoReturn == [op |-> "", ok |-> TRUE, err |-> "", val |-> None]
Returned(op, r) == [op |-> op, ok |-> r.ok, err |-> r.err, val |-> r.val]

\* board.read(): the next byte of the buffer, or a timeout.
BoardRead == IF rx = <<>> THEN <<>> ELSE <<Head(rx)>>
AfterRead == IF rx = <<>> THEN <<>> ELSE Tail(rx)

\* time.time() of line 250, in units in which every byte read takes one.
Tick == now + Len(BoardRead)

(***************************************************************************)
(* send(), by caller c.                                                    *)
(***************************************************************************)
\* Lines 132-173: compile the frame, or raise; then take the lock.
SendCall(c, cmd, args, arg_formats) ==
    /\ cpc[c] = "idle"
    /\ LET r == SendCompile(board, cmd, args, arg_formats)
       IN  IF ~r.ok
           THEN /\ cret' = [cret EXCEPT ![c] = Returned("send", r)]
                /\ UNCHANGED <<cpc, cloc, lock>>
           ELSE /\ CanAcquire(c)
                /\ lock' = Acquired(c)
                /\ cpc' = [cpc EXCEPT ![c] = "s_write"]
                /\ cloc' = [cloc EXCEPT ![c].frame = r.val]
                /\ UNCHANGED cret
    /\ UNCHANGED <<board, rx, device, tx, now, listenerVars>>

\* SendWrite writing the frame in two halves.
SendWrite_InHalves(c) ==
    /\ cpc[c] = "s_write"
    /\ tx' = tx \o << SubSeq(cloc[c].frame, 1, 1),
                      SubSeq(cloc[c].frame, 2, Len(cloc[c].frame)) >>
    /\ lock' = Released
    /\ cpc' = [cpc EXCEPT ![c] = "idle"]
    /\ cloc' = [cloc EXCEPT ![c] = NoLocals]
    /\ cret' = [cret EXCEPT ![c] = Returned("send", Ok(None))]
    /\ UNCHANGED <<board, rx, device, now, listenerVars>>

\* Line 174: board.write, and the lock is released.
SendWrite(c) ==
    /\ cpc[c] = "s_write"
    /\ tx' = Append(tx, cloc[c].frame)
    /\ lock' = Released
    /\ cpc' = [cpc EXCEPT ![c] = "idle"]
    /\ cloc' = [cloc EXCEPT ![c] = NoLocals]
    /\ cret' = [cret EXCEPT ![c] = Returned("send", Ok(None))]
    /\ UNCHANGED <<board, rx, device, now, listenerVars>>

(***************************************************************************)
(* receive(), by caller c.                                                 *)
(***************************************************************************)
\* Lines 186-193: take the lock, start the loop.
ReceiveCall(c, arg_formats) ==
    /\ cpc[c] = "idle"
    /\ CanAcquire(c)
    /\ lock' = Acquired(c)
    /\ cpc' = [cpc EXCEPT ![c] = "r_read"]
    /\ cloc' = [cloc EXCEPT ![c] = [NoLocals EXCEPT !.formats = arg_formats]]
    /\ UNCHANGED <<board, rx, device, tx, cret, now, listenerVars>>

\* ReceiveRead with a timeout that leaves a pending escape pending.
ReceiveRead_KeepsEscape(c) ==
    /\ cpc[c] = "r_read"
    /\ rx' = AfterRead
    /\ LET st == IF cloc[c].st.escaped /\ BoardRead = <<>>
                 THEN [cloc[c].st EXCEPT !.raw_msg = Append(@, <<>>)]
                 ELSE ReadLoopStep(cloc[c].st, BoardRead)
       IN  IF st.looping
           THEN /\ cloc' = [cloc EXCEPT ![c].st = st]
                /\ UNCHANGED <<lock, cpc, cret>>
           ELSE LET r == ReceiveFinish(board, st, cloc[c].formats, Tick)
                IN  /\ lock' = Released
                    /\ cpc' = [cpc EXCEPT ![c] = "idle"]
                    /\ cloc' = [cloc EXCEPT ![c] = [NoLocals EXCEPT !.st = st]]
                    /\ cret' = [cret EXCEPT ![c] = Returned("receive", r)]
    /\ now' = Tick
    /\ UNCHANGED <<board, device, tx, listenerVars>>

\* Lines 194-232: one pass of the loop; when it breaks the lock is released
\* and lines 234-288 run.
ReceiveRead(c) ==
    /\ cpc[c] = "r_read"
    /\ rx' = AfterRead
    /\ LET st == ReadLoopStep(cloc[c].st, BoardRead)
       IN  IF st.looping
           THEN /\ cloc' = [cloc EXCEPT ![c].st = st]
                /\ UNCHANGED <<lock, cpc, cret>>
           ELSE LET r == ReceiveFinish(board, st, cloc[c].formats, Tick)
                IN  /\ lock' = Released
                    /\ cpc' = [cpc EXCEPT ![c] = "idle"]
                    /\ cloc' = [cloc EXCEPT ![c] = [NoLocals EXCEPT !.st = st]]
                    /\ cret' = [cret EXCEPT ![c] = Returned("receive", r)]
    /\ now' = Tick
    /\ UNCHANGED <<board, device, tx, listenerVars>>

(***************************************************************************)
(* receive_from_listener(), listen(), stop_listening(), by a caller.  The  *)
(* listener is a forked process: it works on its own copy of the session,  *)
(* taken at listen(), and shares the lock, the serial line and the         *)
(* manager's lists with the callers.                                       *)
(***************************************************************************)
ListenerAlive == lpc \notin {"none", "dead"}

\* listen_delay=0.25, the default of listen(), in quarters of a second.
DefaultDelay == 1

\* self._listener_manager.list(): a list no one names yet.
FreshList ==
    CHOOSE i \in ListIds : i # pref /\ (ListenerAlive => i # lref)

\* The manager drops a list once no proxy names it.
DropUnless(ls, id, named) == IF named THEN ls ELSE [ls EXCEPT ![id] = <<>>]

\* list.append(tmp) of line 666.
ListAppend_AtHead(q, m) == <<m>> \o q
ListAppend(q, m) == Append(q, m)

\* Lines 592-599: under the lock, copy the list and bind a new one.
ReceiveFromListener(c) ==
    /\ cpc[c] = "idle"
    /\ CanAcquire(c)
    /\ cret' = [cret EXCEPT ![c] =
                    [op |-> "receive_from_listener", ok |-> TRUE, err |-> "",
                     val |-> [None EXCEPT !.values = lists[pref]]]]
    /\ delivered' = delivered \o lists[pref]
    /\ pref' = FreshList
    /\ lists' = DropUnless(lists, pref, ListenerAlive /\ lref = pref)
    /\ UNCHANGED <<board, rx, device, tx, lock, cpc, cloc, now, lpc, lloc, lref,
                   handle, listen_delay, alive, appended>>

\* Listen forking a listener whether or not the handle is set.
Listen_Always(c, delay) ==
    /\ cpc[c] = "idle"
    /\ listen_delay' = delay
    /\ handle' = TRUE
    /\ lpc' = "l_idle"
    /\ lloc' = [st |-> ReadLoopStart, tmp |-> None, delay |-> delay]
    /\ lref' = pref
    /\ alive' = alive + 1
    /\ UNCHANGED <<board, rx, device, tx, lock, cpc, cloc, cret, now, pref, lists,
                   appended, delivered>>

\* board.readline() on the buffer bs: the bytes up to and with the first
\* "\n", all of them if there is none before the timeout.
ReadLine(bs) ==
    IF \E i \in 1..Len(bs) : bs[i] = 10
    THEN SubSeq(bs, 1, CHOOSE i \in 1..Len(bs) :
                          bs[i] = 10 /\ \A j \in 1..(i - 1) : bs[j] # 10)
    ELSE bs

\* Line 608 of receive_all(): the messages of the listener, drained as
\* receive_from_listener() does, are kept in msg_list.
ReceiveAllCall(c) ==
    /\ cpc[c] = "idle"
    /\ CanAcquire(c)
    /\ cloc' = [cloc EXCEPT ![c] = [NoLocals EXCEPT !.msg_list = lists[pref]]]
    /\ cpc' = [cpc EXCEPT ![c] = "ra_read"]
    /\ pref' = FreshList
    /\ lists' = DropUnless(lists, pref, ListenerAlive /\ lref = pref)
    /\ UNCHANGED <<board, rx, device, tx, lock, cret, now, lpc, lloc, lref,
                   handle, listen_delay, alive, appended, delivered>>

\* Lines 611-616: under the lock a line is read and decoded, and the call
\* of self._parse_message, which the class does not have, raises; the
\* lock is released on the way out.
ReceiveAllRead(c) ==
    /\ cpc[c] = "ra_read"
    /\ CanAcquire(c)
    /\ rx' = Drop(rx, Len(ReadLine(rx)))
    /\ cret' = [cret EXCEPT ![c] =
                    Returned("receive_all",
                             IF Decodes(ReadLine(rx)) THEN Raise("AttributeError")
                             ELSE Raise("UnicodeDecodeError"))]
    /\ cpc' = [cpc EXCEPT ![c] = "idle"]
    /\ UNCHANGED <<board, device, tx, lock, cloc, now, listenerVars>>

\* Lines 632-640: set the delay; fork the listener, which starts as a copy
\* of the session, unless the handle is set.
Listen(c, delay) ==
    /\ cpc[c] = "idle"
    /\ listen_delay' = delay
    /\ IF handle
       THEN UNCHANGED <<lpc, lloc, lref, handle, alive>>
       ELSE /\ handle' = TRUE
            /\ lpc' = "l_idle"
            /\ lloc' = [st |-> ReadLoopStart, tmp |-> None, delay |-> delay]
            /\ lref' = pref
            /\ alive' = alive + 1
    /\ UNCHANGED <<board, rx, device, tx, lock, cpc, cloc, cret, now, pref, lists,
                   appended, delivered>>

\* StopListening clearing the handle and leaving the process running.
StopListening_KeepsRunning(c) ==
    /\ cpc[c] = "idle"
    /\ handle' = FALSE
    /\ UNCHANGED <<board, rx, device, tx, cpc, cloc, cret, now, pref, appended,
                   delivered, listen_delay, lpc, lloc, lref, lock, lists, alive>>

\* Lines 647-651: terminate the listener process and clear the handle.  A
\* lock the process holds stays held.
StopListening(c) ==
    /\ cpc[c] = "idle"
    /\ IF ~handle
       THEN UNCHANGED <<lpc, lloc, lref, handle, lock, lists, alive>>
       ELSE /\ handle' = FALSE
            /\ lpc' = "none"
            /\ lloc' = [st |-> ReadLoopStart, tmp |-> None, delay |-> 0]
            /\ lref' = pref
            /\ alive' = IF ListenerAlive THEN alive - 1 ELSE alive
            /\ lock' = IF lock.owner = "listener"
                       THEN [lock EXCEPT !.owner = "dead"] ELSE lock
            /\ lists' = DropUnless(lists, lref, lref = pref)
    /\ UNCHANGED <<board, rx, device, tx, cpc, cloc, cret, now, pref, appended,
                   delivered, listen_delay>>

(***************************************************************************)
(* _listen(), in the listener process.                                     *)
(***************************************************************************)
\* Line 663, lines 186-193 of receive(): take the lock, start the loop.
ListenerReceive ==
    /\ lpc = "l_idle"
    /\ CanAcquire("listener")
    /\ lock' = Acquired("listener")
    /\ lpc' = "l_read"
    /\ lloc' = [lloc EXCEPT !.st = ReadLoopStart, !.tmp = None]
    /\ UNCHANGED <<board, rx, device, tx, cpc, cloc, cret, now, lref, handle,
                   listen_delay, alive, pref, lists, appended, delivered>>

\* ListenerRead with the loop of _listen() going on after an error.
ListenerRead_Recover ==
    /\ lpc = "l_read"
    /\ rx' = AfterRead
    /\ LET st == ReadLoopStep(lloc.st, BoardRead)
       IN  IF st.looping
           THEN /\ lloc' = [lloc EXCEPT !.st = st]
                /\ UNCHANGED <<lock, lpc>>
           ELSE LET r == ReceiveFinish(board, st, NoFormats, Tick)
                IN  /\ lock' = Released
                    /\ lpc' = IF r.ok /\ ~r.val.none THEN "l_wait" ELSE "l_idle"
                    /\ lloc' = [lloc EXCEPT !.st = ReadLoopStart,
                                            !.tmp = IF r.ok THEN r.val ELSE None]
    /\ now' = Tick
    /\ UNCHANGED <<board, device, tx, cpc, cloc, cret, lref, handle,
                   listen_delay, pref, appended, delivered, lists, alive>>

\* Lines 194-232 of receive(): one pass of the loop; when it breaks the
\* lock is released and lines 234-288 run: None sends the listener to
\* sleep, a message is kept in tmp, an error ends the process.
ListenerRead ==
    /\ lpc = "l_read"
    /\ rx' = AfterRead
    /\ LET st == ReadLoopStep(lloc.st, BoardRead)
       IN  IF st.looping
           THEN /\ lloc' = [lloc EXCEPT !.st = st]
                /\ UNCHANGED <<lock, lpc, lists, alive>>
           ELSE LET r == ReceiveFinish(board, st, NoFormats, Tick)
                IN  /\ lock' = Released
                    /\ lpc' = IF ~r.ok THEN "dead"
                              ELSE IF r.val.none THEN "l_idle" ELSE "l_wait"
                    /\ lloc' = [st |-> ReadLoopStart,
                                tmp |-> IF r.ok THEN r.val ELSE None,
                                delay |-> IF r.ok THEN lloc.delay ELSE 0]
                    /\ alive' = IF r.ok THEN alive ELSE alive - 1
                    /\ lists' = DropUnless(lists, lref, r.ok \/ lref = pref)
    /\ now' = Tick
    /\ UNCHANGED <<board, device, tx, cpc, cloc, cret, lref, handle,
                   listen_delay, pref, appended, delivered>>

\* Line 665: take the lock for the append.
ListenerLock ==
    /\ lpc = "l_wait"
    /\ CanAcquire("listener")
    /\ lock' = Acquired("listener")
    /\ lpc' = "l_append"
    /\ UNCHANGED <<board, rx, device, tx, cpc, cloc, cret, now, lloc, lref,
                   handle, listen_delay, alive, pref, lists, appended, delivered>>

\* Lines 666-668: append to the list the process names, release, sleep.
ListenerAppend ==
    /\ lpc = "l_append"
    /\ lists' = [lists EXCEPT ![lref] = ListAppend(@, lloc.tmp)]
    /\ appended' = Append(appended, lloc.tmp)
    /\ lock' = Released
    /\ lpc' = "l_idle"
    /\ lloc' = [lloc EXCEPT !.tmp = None]
    /\ UNCHANGED <<board, rx, device, tx, cpc, cloc, cret, now, lref, handle,
                   listen_delay, alive, pref, delivered>>

(***************************************************************************)
(* The device, and the session with its callers and its listener.          *)
(***************************************************************************)
\* The frames "0;", "1;", "0;", ... the device sends.
DeviceStream == Flatten([k \in 1..MaxFrames |-> <<48 + ((k - 1) % 2), _byte_command_sep>>])

\* The next byte of the device reaches the input buffer.
DeviceSend ==
    /\ device # <<>>
    /\ rx' = Append(rx, Head(device))
    /\ device' = Tail(device)
    /\ UNCHANGED <<board, tx, lock, cpc, cloc, cret, now, listenerVars>>

(***************************************************************************)
(* A lone caller on a quiet line: the inputs of its calls are drawn in the *)
(* initial state.  SpecSend makes one send() and, the written frame looped *)
(* back into the input buffer, one receive() with the same formats.        *)
(* SpecRecv makes receive() calls on a free byte stream until the buffer   *)
(* is empty.                                                               *)
(***************************************************************************)
SeqsUpTo(S, n) == UNION {[1..k -> S] : k \in 0..n}

SendAlphabet == {NUL, _byte_field_sep, _byte_command_sep, _byte_escape_sep, 49, 32}
Payloads == SeqsUpTo(SendAlphabet, MaxPayload)

IntValues == {-32769, -32768, -129, -128, -1, 0, 1, 44, 59, 127, 128, 255, 256,
              32767, 32768, 65535, 65536}
FloatValues == {-1001, -1000, -1, 0, 1, 44, 1000, 1001, 100000, 100001}

Values ==
    {PyInt(n) : n \in IntValues} \cup {PyFloat(n) : n \in FloatValues}
    \cup {PyBool(n) : n \in {0, 1}}
    \cup {PyStr(s) : s \in Payloads} \cup {PyBytes(s) : s \in Payloads}

\* the ten codes and one that is none, each as the only format; or None
OneFormat == {Formats(<<c>>) : c \in FormatCodes \cup {"x"}} \cup {NoFormats}

\* calls of every shape: any command, up to MaxArgs arguments and formats
ShapeValues == {PyInt(5), PyInt(200), PyStr(<<49, 44>>)}
ShapeFormats ==
    {Formats(cs) : cs \in SeqsUpTo({"i", "s"}, MaxArgs)} \cup {NoFormats}
ShapeBoard == CHOOSE b \in Boards : b.double_bytes = 4

SendInputs ==
    {[board |-> b, cmd |-> "kValue", args |-> <<v>>, formats |-> f] :
        b \in Boards, v \in Values, f \in OneFormat}
    \cup
    {[board |-> ShapeBoard, cmd |-> c, args |-> a, formats |-> f] :
        c \in {"kPing", "kValue", "bogus"},
        a \in SeqsUpTo(ShapeValues, MaxArgs), f \in ShapeFormats}

RecvAlphabet == {NUL, _byte_field_sep, _byte_command_sep, _byte_escape_sep, 49, 13}
\* Frames each followed by "\r\n": "0;" "1,1;", "1;" "1;", "1,1/,0;" "0,/;;",
\* "11,1;" "0,1.0;"
LineStreams ==
    { <<48, 59, 13, 10, 49, 44, 49, 59, 13, 10>>,
      <<49, 59, 13, 10, 49, 59, 13, 10>>,
      <<49, 44, 49, 47, 44, 48, 59, 13, 10, 48, 44, 47, 59, 59, 13, 10>>,
      <<49, 49, 44, 49, 59, 13, 10, 48, 44, 49, 46, 48, 59, 13, 10>> }

\* "2,10;" and "2,1/,0;"; "2,10" cut short, a byte that is no text alone
\* and as a command id; the command ids "-1", "-2", "-3", "2"
ExampleStreams ==
    { <<50, 44, 49, 48, 59>>, <<50, 44, 49, 47, 44, 48, 59>>,
      <<50, 44, 49, 48>>, <<255>>, <<255, 59>>,
      <<45, 49, 59>>, <<45, 50, 44, 49, 59>>, <<45, 51, 59>>, <<50, 59>> }
    \cup LineStreams
Streams == SeqsUpTo(RecvAlphabet, MaxStream) \cup ExampleStreams

NoPlan == [step |-> "none", cmd |-> "", args |-> <<>>, formats |-> NoFormats]

\* The session as __init__ leaves it, on a quiet line.
InitSession ==
    /\ tx = <<>>
    /\ lock = Free
    /\ cpc = [c \in Callers |-> "idle"]
    /\ cloc = [c \in Callers |-> NoLocals]
    /\ cret = [c \in Callers |-> NoReturn]
    /\ lpc = "none" /\ lloc = [st |-> ReadLoopStart, tmp |-> None, delay |-> 0]
    /\ lref = 0 /\ handle = FALSE /\ pref = 0
    /\ listen_delay = 0 /\ alive = 0
    /\ lists = [i \in ListIds |-> <<>>]
    /\ now = 0 /\ appended = <<>> /\ delivered = <<>>

InitSend ==
    \E in \in SendInputs :
        /\ board = in.board
        /\ plan = [step |-> "send", cmd |-> in.cmd, args |-> in.args,
                   formats |-> in.formats]
        /\ rx = <<>> /\ device = <<>>
        /\ InitSession

PlanSend ==
    /\ plan.step = "send"
    /\ SendCall("main", plan.cmd, plan.args, plan.formats)
    /\ plan' = [plan EXCEPT !.step = "sent"]

PlanWrite == SendWrite("main") /\ UNCHANGED plan

\* The device echoes the frame: what was written becomes the input.
Loopback ==
    /\ plan.step = "sent" /\ cpc["main"] = "idle" /\ tx # <<>>
    /\ rx' = tx[Len(tx)]
    /\ plan' = [plan EXCEPT !.step = "echoed"]
    /\ UNCHANGED <<board, device, tx, lock, cpc, cloc, cret, now, listenerVars>>

PlanReceiveEcho ==
    /\ plan.step = "echoed"
    /\ ReceiveCall("main", plan.formats)
    /\ plan' = [plan EXCEPT !.step = "done"]

PlanRead == ReceiveRead("main") /\ UNCHANGED plan

NextSend == PlanSend \/ PlanWrite \/ Loopback \/ PlanReceiveEcho \/ PlanRead

SpecSend == InitSend /\ [][NextSend]_vars

InitRecv ==
    \E stream \in Streams, b \in Boards, f \in {NoFormats, Formats(<<"s">>)} :
        /\ board = b
        /\ plan = [NoPlan EXCEPT !.step = "recv", !.formats = f]
        /\ rx = stream /\ device = <<>>
        /\ InitSession

\* The next receive(), as long as the buffer holds bytes.
PlanReceive ==
    /\ plan.step = "recv"
    /\ rx # <<>> \/ cret["main"].op = ""
    /\ ReceiveCall("main", plan.formats)
    /\ UNCHANGED plan

NextRecv == PlanReceive \/ PlanRead

SpecRecv == InitRecv /\ [][NextRecv]_vars

\* The caller's thread keeps running and every board.read() returns, with
\* a byte or at the timeout: the pass of the loop, which can be made
\* exactly while the caller is in the loop, is made.  This is
\* WF_vars(PlanRead) with ENABLED <<PlanRead>>_vars written out as
\* cpc["main"] = "r_read".
SpecRecvLive ==
    SpecRecv /\ ([]<>(cpc["main"] # "r_read") \/ []<><<PlanRead>>_vars)

(***************************************************************************)
(* The session shared by the callers and the listener.                     *)
(***************************************************************************)
Init ==
    /\ board = ShapeBoard
    /\ plan = NoPlan
    /\ rx = <<>> /\ device = DeviceStream
    /\ InitSession

CallerSend(c) ==
    /\ Len(tx) < MaxWrites
    /\ SendCall(c, "kPing", <<>>, NoFormats)
    /\ UNCHANGED plan

CallerWrite(c) == SendWrite(c) /\ UNCHANGED plan
CallerReceive(c) == ReceiveCall(c, NoFormats) /\ UNCHANGED plan
CallerRead(c) == ReceiveRead(c) /\ UNCHANGED plan

\* The listener is started, stopped and drained by the thread that made
\* the session.
Owner == "main"
CallerDrain(c) == c = Owner /\ ReceiveFromListener(c) /\ UNCHANGED plan
CallerListen(c) == c = Owner /\ Listen(c, DefaultDelay) /\ UNCHANGED plan
CallerStop(c) == c = Owner /\ StopListening(c) /\ UNCHANGED plan

Next ==
    \/ \E c \in Callers :
          \/ CallerSend(c) \/ CallerWrite(c)
          \/ CallerReceive(c) \/ CallerRead(c)
          \/ CallerDrain(c) \/ CallerListen(c) \/ CallerStop(c)
    \/ (ListenerReceive /\ UNCHANGED plan)
    \/ (ListenerRead /\ UNCHANGED plan)
    \/ (ListenerLock /\ UNCHANGED plan)
    \/ (ListenerAppend /\ UNCHANGED plan)
    \/ (DeviceSend /\ UNCHANGED plan)

Spec == Init /\ [][Next]_vars

(***************************************************************************)
(* The owner of the listener alone with it: listen() with either of two    *)
(* delays, stop_listening(), receive_from_listener(), receive_all().       *)
(***************************************************************************)
NextListen ==
    \/ \E d \in {DefaultDelay, DefaultDelay + 1} :
          Listen(Owner, d) /\ UNCHANGED plan
    \/ CallerStop(Owner)
    \/ CallerDrain(Owner)
    \/ (ReceiveAllCall(Owner) /\ UNCHANGED plan)
    \/ (ReceiveAllRead(Owner) /\ UNCHANGED plan)
    \/ (ListenerReceive /\ UNCHANGED plan)
    \/ (ListenerRead /\ UNCHANGED plan)
    \/ (ListenerLock /\ UNCHANGED plan)
    \/ (ListenerAppend /\ UNCHANGED plan)
    \/ (DeviceSend /\ UNCHANGED plan)

SpecListen == Init /\ [][NextListen]_vars

(***************************************************************************)
(* The frame parser against the reference decoding.                        *)
(***************************************************************************)
\* The reference decoding of a byte sequence up to its first unescaped
\* command separator: cur is the field being read, acc the fields closed.
RECURSIVE ReferenceScan(_, _, _)
ReferenceScan(bs, cur, acc) ==
    IF bs = <<>> THEN Append(acc, cur)
    ELSE IF Head(bs) = _byte_escape_sep /\ Len(bs) >= 2
    THEN ReferenceScan(Tail(Tail(bs)),
                       IF bs[2] \in {_byte_field_sep, _byte_command_sep,
                                     _byte_escape_sep, NUL}
                       THEN Append(cur, bs[2])
                       ELSE cur \o <<_byte_escape_sep, bs[2]>>,
                       acc)
    ELSE IF Head(bs) = _byte_field_sep
    THEN ReferenceScan(Tail(bs), <<>>, Append(acc, cur))
    ELSE IF Head(bs) = _byte_command_sep THEN Append(acc, cur)
    ELSE ReferenceScan(Tail(bs), Append(cur, Head(bs)), acc)

ReferenceFields(bs) == ReferenceScan(bs, <<>>, <<>>)

\* C2: whenever the read loop of receive() has ended at a command
\* separator, the raw fields it built are the reference decoding of the
\* bytes it read: split at the unescaped field separators, an escaped
\* reserved byte kept without its escape byte, any other escaped byte kept
\* with it; "2,10;" gives "2", "10" and "2,1/,0;" gives "2", "1,0".
C2_RawFieldsAreReference ==
    \A c \in Callers :
        LET st == cloc[c].st
        IN  st.command_sep_found =>
              /\ RawFields(st) = ReferenceFields(Flatten(st.raw_msg))
              /\ Flatten(st.raw_msg) = <<50, 44, 49, 48, 59>>
                    => RawFields(st) = << <<50>>, <<49, 48>> >>
              /\ Flatten(st.raw_msg) = <<50, 44, 49, 47, 44, 48, 59>>
                    => RawFields(st) = << <<50>>, <<49, 44, 48>> >>

\* receive() has returned from "2,1/,0;" with the fields "2" and "1,0".
C2_Witness ==
    /\ cpc["main"] = "idle" /\ cret["main"].op = "receive"
    /\ cloc["main"].st.command_sep_found
    /\ Flatten(cloc["main"].st.raw_msg) = <<50, 44, 49, 47, 44, 48, 59>>
    /\ RawFields(cloc["main"].st) = << <<50>>, <<49, 44, 48>> >>

(***************************************************************************)
(* The frames send() writes.                                               *)
(***************************************************************************)
\* The lone caller's send() has returned or raised.
SendOver == plan.step \notin {"none", "recv", "send"} /\ cpc["main"] # "s_write"
SendRaised(e) ==
    plan.step = "sent" /\ cret["main"].op = "send" /\ cret["main"].err = e
\* The lone caller's receive() of the echoed frame has returned or raised.
EchoOver ==
    plan.step = "done" /\ cpc["main"] = "idle" /\ cret["main"].op = "receive"

\* C3: a str or bytes payload sent as the one 's' argument comes back, once
\* the written frame has gone through the read loop of receive(), as a raw
\* argument field equal to the payload.
C3_EscapeRoundTrip ==
    (/\ EchoOver
     /\ Len(plan.args) = 1 /\ plan.formats = Formats(<<"s">>)
     /\ plan.args[1].t \in {"str", "bytes"})
    => /\ cloc["main"].st.command_sep_found
       /\ Len(RawFields(cloc["main"].st)) = 2
       /\ RawFields(cloc["main"].st)[2] = plan.args[1].s

\* The positions of a frame that hold a reserved byte no escape byte
\* covers: a separator or NUL not behind an escape byte, or an escape byte
\* that escapes no reserved byte.
RECURSIVE UnescapedFrom(_, _)
UnescapedFrom(bs, i) ==
    IF i > Len(bs) THEN {}
    ELSE IF bs[i] = _byte_escape_sep
    THEN IF i < Len(bs) /\ bs[i + 1] \in _escaped_characters
         THEN UnescapedFrom(bs, i + 2)
         ELSE {i} \cup UnescapedFrom(bs, i + 1)
    ELSE IF bs[i] \in _escaped_characters THEN {i} \cup UnescapedFrom(bs, i + 1)
    ELSE UnescapedFrom(bs, i + 1)

UnescapedReserved(bs) == UnescapedFrom(bs, 1)

\* C4: in every frame written, the reserved bytes left unescaped are the
\* field separators joining the fields, one per argument, and the command
\* separator that ends the frame.
C4_NoUnescapedReserved ==
    \A k \in 1..Len(tx) :
        LET frame == tx[k]
            U == UnescapedReserved(frame)
        IN  /\ Len(frame) \in U /\ frame[Len(frame)] = _byte_command_sep
            /\ \A i \in U \ {Len(frame)} : frame[i] = _byte_field_sep
            /\ plan.step # "none"
                  => Cardinality(U \ {Len(frame)}) = Len(plan.args)

(***************************************************************************)
(* The encoders against the decoders.                                      *)
(***************************************************************************)
\* value is an in-bounds value of the format code on board b.
InBounds(b, code, value) ==
    CASE code = "c" -> value.t \in {"str", "bytes"} /\ Len(value.s) = 1
      [] code = "i" -> value.t = "int" /\ value.n >= int_min(b) /\ value.n <= int_max(b)
      [] code = "I" -> /\ value.t = "int" /\ value.n >= unsigned_int_min(b)
                       /\ value.n <= unsigned_int_max(b)
      [] code = "l" -> value.t = "int" /\ value.n >= long_min(b) /\ value.n <= long_max(b)
      [] code = "L" -> /\ value.t = "int" /\ value.n >= unsigned_long_min(b)
                       /\ value.n <= unsigned_long_max(b)
      [] code = "f" -> /\ value.t = "float" /\ value.n >= float_min(b)
                       /\ value.n <= float_max(b)
      [] code = "d" -> /\ value.t = "float" /\ value.n >= double_min(b)
                       /\ value.n <= double_max(b)
      [] code = "s" -> value.t = "str"
      [] code = "?" -> value.t = "bool"
      [] OTHER -> FALSE

\* The bytes of one field with the escape bytes the frame parser drops
\* removed (the field as receive() hands it to the decoder).
FieldUnescaped(bs) == ReferenceFields(bs \o <<_byte_command_sep>>)[1]

\* What the decoder of the code is given: the encoder's bytes, for a string
\* with the escaping undone.
DecoderInput(code, bs) == IF code = "s" THEN FieldUnescaped(bs) ELSE bs

\* The value the round trip is to give back: v itself; a char as the bytes
\* object; a string less its NUL padding and surrounding white space.
RoundTripOf(code, value) ==
    CASE code = "c" -> PyBytes(value.s)
      [] code = "s" -> PyStr(StripChars(StrWhitespace, StripChars({NUL}, value.s)))
      [] OTHER -> value

\* C5: for every code but 'g' and every in-bounds value of it, the encoder
\* succeeds (so does the send() of that one argument) and the decoder of
\* the same code, given the encoder's bytes, succeeds and returns the value.
C5_RoundTrip ==
    (/\ plan.step = "sent"
     /\ Len(plan.args) = 1 /\ plan.formats.given /\ Len(plan.formats.codes) = 1
     /\ InBounds(board, plan.formats.codes[1], plan.args[1]))
    => LET code == plan.formats.codes[1]
           enc == _send_methods(board, code, plan.args[1])
       IN  /\ enc.ok
           /\ cret["main"].err = ""
           /\ _recv_methods(board, code, DecoderInput(code, enc.val)).ok
           /\ _recv_methods(board, code, DecoderInput(code, enc.val)).val
                 = RoundTripOf(code, plan.args[1])

(***************************************************************************)
(* The errors of send().                                                   *)
(***************************************************************************)
\* The command id of a written frame: the field before the first separator.
RECURSIVE FirstField(_)
FirstField(bs) ==
    IF bs = <<>> \/ Head(bs) \in {_byte_field_sep, _byte_command_sep} THEN <<>>
    ELSE <<Head(bs)>> \o FirstField(Tail(bs))

\* C8: a send() of a command name that is not registered raises the
\* unknown-command error in a step that neither writes nor touches the
\* lock; the command id of every frame written is an integer in
\* [0, len(command_names)).
C8_UnknownCommand ==
    /\ [][(plan.step = "send" /\ plan.cmd \notin DOMAIN _cmd_name_to_int)
            => /\ tx' = tx /\ lock' = lock
               /\ cret'["main"].op = "send"
               /\ cret'["main"].err = "ValueError: command"]_vars
    /\ [](\A k \in 1..Len(tx) :
            /\ AllDigits(FirstField(tx[k]))
            /\ DigitsVal(FirstField(tx[k]), 0) \in 0..(Len(command_names) - 1))

\* send("bogus", ...) has raised the unknown-command error.
C8_Witness ==
    /\ plan.cmd = "bogus" /\ Len(plan.args) = 2
    /\ SendRaised("ValueError: command")
    /\ tx = <<>> /\ lock = Free

\* The declared bounds of the numeric format code on board b.
DeclaredMin(b, code) ==
    CASE code = "i" -> int_min(b) [] code = "I" -> unsigned_int_min(b)
      [] code = "l" -> long_min(b) [] code = "L" -> unsigned_long_min(b)
      [] code = "f" -> float_min(b) [] code = "d" -> double_min(b)
DeclaredMax(b, code) ==
    CASE code = "i" -> int_max(b) [] code = "I" -> unsigned_int_max(b)
      [] code = "l" -> long_max(b) [] code = "L" -> unsigned_long_max(b)
      [] code = "f" -> float_max(b) [] code = "d" -> double_max(b)

\* Argument i of the call, coerced, lies outside the declared bounds of its
\* numeric format.
OutOfRange(i) ==
    LET code == plan.formats.codes[i]
        c == ToNumber(plan.args[i])
    IN  /\ code \in {"i", "I", "l", "L", "f", "d"}
        /\ c.ok
        /\ c.val < DeclaredMin(board, code) \/ c.val > DeclaredMax(board, code)

\* C9: a send() whose arguments all have numeric formats and coerce raises
\* the range error exactly when one of them is outside the declared bounds
\* of its own type, and then writes nothing.
C9_RangeError ==
    (/\ SendOver /\ plan.cmd \in DOMAIN _cmd_name_to_int
     /\ plan.formats.given /\ Len(plan.formats.codes) = Len(plan.args)
     /\ \A i \in 1..Len(plan.args) :
            /\ plan.formats.codes[i] \in {"i", "I", "l", "L", "f", "d"}
            /\ ToNumber(plan.args[i]).ok)
    => /\ SendRaised("OverflowError") <=> \E i \in 1..Len(plan.args) : OutOfRange(i)
       /\ SendRaised("OverflowError") => tx = <<>>

\* C10: a send() of a registered command with as many values as resolved
\* formats never raises the argument-count error, one with a different
\* number raises it and writes nothing; so a frame is written only for as
\* many formats as values.
C10_ArgumentCount ==
    (SendOver /\ plan.cmd \in DOMAIN _cmd_name_to_int)
    => LET n == Len(ResolveFormats(plan.formats, plan.cmd, Len(plan.args)))
       IN  /\ n # Len(plan.args) <=> SendRaised("ValueError: count")
           /\ SendRaised("ValueError: count") => tx = <<>>
           /\ tx # <<>> => n = Len(plan.args)

\* send() with two values and one format has raised the count error.
C10_Witness ==
    /\ Len(plan.args) = 2 /\ plan.formats.given /\ Len(plan.formats.codes) = 1
    /\ SendRaised("ValueError: count") /\ tx = <<>>

(***************************************************************************)
(* The callers and the listener on one line.                               *)
(***************************************************************************)
\* Who is between taking the lock for a board.write or a read loop and the
\* write or the read that ends it.
InTransport ==
    {c \in Callers : cpc[c] \in {"s_write", "r_read"}}
        \cup (IF lpc = "l_read" THEN {"listener"} ELSE {})

\* C1: at most one of the callers' send() and receive() calls and the
\* listener is inside its board.write or its read loop at a time, and the
\* one that is holds the lock.
C1_MutualExclusion ==
    /\ Cardinality(InTransport) <= 1
    /\ \A w \in InTransport : lock.owner = w

\* One caller is in the read loop while the other has sent and the listener
\* waits for the lock with a parsed message.
C1_Witness ==
    /\ cpc["worker"] = "r_read" /\ cret["main"].op = "send"
    /\ lpc = "l_wait" /\ lock.owner = "worker"

\* C6: every message the listener has appended has been returned by a
\* drain or is in the list the next drain returns, once each and no other.
C6_NoLossNoDuplicate == appended = delivered \o lists[pref]

\* The messages in seq, in the order of the clock.
InParseOrder(seq) ==
    \A i, j \in 1..Len(seq) : i < j => seq[i].time < seq[j].time

\* C7: the messages the drains have returned, drain after drain and each
\* in its order, followed by those the next drain returns, are in the
\* order in which their frames were parsed.
C7_ParseOrder == InParseOrder(delivered \o lists[pref])

\* The drains have returned the messages of both frames of the device.
C7_Witness ==
    /\ Len(delivered) = 2
    /\ delivered[1].name = "kPing" /\ delivered[2].name = "kValue"
    /\ cret[Owner].op = "receive_from_listener"

(***************************************************************************)
(* What receive() makes of the bytes it read.                              *)
(***************************************************************************)
\* Caller c is back from a receive(); the read loop left st.
ReceiveOver(c) ==
    cpc[c] = "idle" /\ cret[c].op = "receive" /\ ~cloc[c].st.looping

\* C11: a receive() whose scan ended on a timeout without a command
\* separator returns None exactly when nothing was accumulated or the bytes
\* read are all white space, and otherwise raises the malformed-frame error
\* carrying the bytes read.
C11_TimeoutOutcome ==
    \A c \in Callers :
        (ReceiveOver(c) /\ ~cloc[c].st.command_sep_found)
        => LET st == cloc[c].st
               raw == Flatten(st.raw_msg)
               idle == st.msg = << <<>> >> \/ StripChars(Whitespace, raw) = <<>>
           IN  /\ idle <=> (cret[c].ok /\ cret[c].val.none)
               /\ ~idle => /\ cret[c].err = "PCMMangledMessageError"
                           /\ cret[c].val = raw

\* The command-id field denotes an integer in [0, len(command_names)).
DenotesId(field0) ==
    LET cmd == StripChars(Whitespace, field0)
    IN  /\ IsIntText(cmd)
        /\ IntTextVal(cmd) \in 0..(Len(command_names) - 1)

\* C12: a receive() without explicit formats of a terminated frame whose
\* command-id field denotes no integer in [0, len(command_names)) returns
\* a message named "unknown" with one value per argument field; a
\* registered name is returned only for an id inside the range.
C12_UnknownId ==
    \A c \in Callers :
        (ReceiveOver(c) /\ cloc[c].st.command_sep_found /\ ~plan.formats.given)
        => LET fields == RawFields(cloc[c].st)
           IN  /\ ~DenotesId(fields[1])
                    => /\ cret[c].ok /\ ~cret[c].val.none
                       /\ cret[c].val.name = "unknown"
                       /\ Len(cret[c].val.values) = Len(fields) - 1
               /\ (cret[c].ok /\ ~cret[c].val.none /\ cret[c].val.name # "unknown")
                    => DenotesId(fields[1])

(***************************************************************************)
(* The formats send() encodes with.                                        *)
(***************************************************************************)
\* The formats of a call by priority: the explicit ones, else those
\* registered for the command at construction, else one guess per argument.
FormatsByPriority(arg_formats, cmd, n) ==
    IF arg_formats.given THEN arg_formats.codes
    ELSE IF cmd \in DOMAIN command_formats THEN command_formats[cmd]
    ELSE [i \in 1..n |-> "g"]

\* C13: a send() of a registered command does what a send() with the
\* formats of the priority order given explicitly does: the same frame
\* written, or the same error raised.
C13_FormatPriority ==
    (SendOver /\ plan.cmd \in DOMAIN _cmd_name_to_int)
    => LET used == FormatsByPriority(plan.formats, plan.cmd, Len(plan.args))
           r == SendCompile(board, plan.cmd, plan.args, Formats(used))
       IN  IF r.ok THEN tx = <<r.val>> /\ cret["main"].ok
           ELSE tx = <<>> /\ cret["main"].err = r.err

(***************************************************************************)
(* Line terminators between frames.                                        *)
(***************************************************************************)
\* The read loop run over the bytes bs, from st on.
RECURSIVE ScanFrom(_, _)
ScanFrom(st, bs) ==
    IF bs = <<>> \/ ~st.looping THEN st
    ELSE ScanFrom(ReadLoopStep(st, <<Head(bs)>>), Tail(bs))

\* bs is one frame: a command id of digits, fields, the command separator
\* as its last byte and nowhere unescaped before.
WellFormed(bs) ==
    LET st == ScanFrom(ReadLoopStart, bs)
    IN  /\ st.command_sep_found /\ Len(st.raw_msg) = Len(bs)
        /\ RawFields(st)[1] # <<>> /\ AllDigits(RawFields(st)[1])

\* r and q are the same outcome: the same error, None twice, or messages
\* of the same name and values.
SameOutcome(r, q) ==
    /\ r.ok = q.ok /\ r.err = q.err
    /\ r.ok => /\ r.val.none = q.val.none
               /\ r.val.name = q.val.name /\ r.val.values = q.val.values

\* C15: a receive() that reads "\r\n" and then a well-formed frame returns
\* what the receive() of the frame alone returns, so the frames of a
\* stream give the same messages with and without "\r\n" after each; a
\* receive() that reads "\r\n" and then times out returns None.
C15_LineTerminators ==
    \A c \in Callers :
        ReceiveOver(c)
        => LET raw == Flatten(cloc[c].st.raw_msg)
               frame == SubSeq(raw, 3, Len(raw))
           IN  /\ raw = <<13, 10>> => cret[c].ok /\ cret[c].val.none
               /\ (Len(raw) > 2 /\ raw[1] = 13 /\ raw[2] = 10 /\ WellFormed(frame))
                    => SameOutcome(cret[c],
                                   ReceiveFinish(board, ScanFrom(ReadLoopStart, frame),
                                                 plan.formats, 0))

\* receive() has read "\r\n1,1;" and returned kValue with the value 1, and
\* nothing but "\r\n" is left in the buffer.
C15_Witness ==
    /\ ReceiveOver("main") /\ rx = <<13, 10>>
    /\ Flatten(cloc["main"].st.raw_msg) = <<13, 10, 49, 44, 49, 59>>
    /\ cret["main"].ok /\ cret["main"].val.name = "kValue"
    /\ cret["main"].val.values = <<PyInt(1)>>

(***************************************************************************)
(* The listener and its owner.                                             *)
(***************************************************************************)
\* C14: a listen() while the handle is set changes nothing of the running
\* listener: not where it is, its locals, its delay nor its list, and no
\* process is started; at most one listener process is ever running.
C14_SecondListen ==
    /\ [][(handle /\ listen_delay' # listen_delay)
            => UNCHANGED <<lpc, lloc, lref, handle, alive, lock, lists>>]_vars
    /\ [](alive <= 1)

\* A second listen() has set another delay while the listener runs on with
\* the delay it was started with.
C14_Witness ==
    /\ handle /\ ListenerAlive /\ alive = 1
    /\ listen_delay = DefaultDelay + 1 /\ lloc.delay = DefaultDelay

\* C16: receive_all() returns, with the lock not held, a list that starts
\* with the messages it took from the listener's queue.
C16_ReceiveAll ==
    \A c \in Callers :
        (cpc[c] = "idle" /\ cret[c].op = "receive_all")
        => /\ cret[c].ok
           /\ lock.owner # c
           /\ Len(cret[c].val) >= Len(cloc[c].msg_list)
           /\ SubSeq(cret[c].val, 1, Len(cloc[c].msg_list)) = cloc[c].msg_list

(***************************************************************************)
(* The writes of send().                                                   *)
(***************************************************************************)
\* The frame of a call: the command id and the encoded arguments joined by
\* the field separator, the command separator, every NUL escaped.
FrameOf(b, cmd, args, codes) ==
    EscapeSub({NUL},
              JoinWith(_byte_field_sep,
                       <<IntToStr(_cmd_name_to_int[cmd])>>
                       \o [i \in 1..Len(args) |->
                              _send_methods(b, codes[i], args[i]).val])
              \o <<_byte_command_sep>>)

\* C17: a send() writes at most once, and only while it holds the lock: a
\* send() that has returned has written its complete frame in one write, a
\* send() that has raised has written nothing.
C17_WriteOnce ==
    /\ [][tx' # tx => /\ lock.owner = "main" /\ cpc["main"] = "s_write"
                      /\ Len(tx') = Len(tx) + 1]_vars
    /\ [](Len(tx) <= 1)
    /\ []((plan.step = "sent" /\ cpc["main"] = "idle")
            => IF cret["main"].ok
               THEN tx = << FrameOf(board, plan.cmd, plan.args,
                                    ResolveFormats(plan.formats, plan.cmd,
                                                   Len(plan.args))) >>
               ELSE tx = <<>>)

\* send() has returned from a call with two arguments and has written.
C17_Witness ==
    /\ plan.step = "sent" /\ cpc["main"] = "idle" /\ cret["main"].op = "send"
    /\ cret["main"].ok /\ Len(plan.args) = 2 /\ Len(tx) = 1

\* C18: a receive() without explicit formats whose scan ended at a command
\* separator returns a message, never None, with one value per argument
\* field; so does the frame that is the command separator alone.
C18_TerminatedFrame ==
    \A c \in Callers :
        (ReceiveOver(c) /\ cloc[c].st.command_sep_found /\ ~plan.formats.given
         /\ Decodes(Flatten(cloc[c].st.raw_msg)))
        => /\ cret[c].ok /\ ~cret[c].val.none
           /\ Len(cret[c].val.values) = Len(RawFields(cloc[c].st)) - 1

(***************************************************************************)
(* The end of a listener.                                                  *)
(***************************************************************************)
\* The read the listener is about to make ends its scan with the
\* malformed-frame error.
MalformedNext ==
    /\ lpc = "l_read"
    /\ LET st == ReadLoopStep(lloc.st, BoardRead)
       IN  /\ ~st.looping
           /\ ReceiveFinish(board, st, NoFormats, 0).err = "PCMMangledMessageError"

\* Bytes leave the buffer only in the read of a caller.
ReadsByCallers ==
    Len(rx') < Len(rx) => \E c \in Callers : cpc[c] \in {"r_read", "ra_read"}

\* C19: the read of the listener that raises the malformed-frame error
\* ends the listener with the lock released and the list of the next drain
\* as it was; an ended listener stays ended until it is stopped, reads
\* nothing and appends nothing, whatever arrives, and the list of the next
\* drain changes only by a drain.
C19_MalformedEndsListener ==
    /\ [][(MalformedNext /\ lloc' # lloc /\ handle' = handle)
            => /\ lpc' = "dead" /\ lock' = Free
               /\ pref' = pref /\ lists'[pref] = lists[pref]]_vars
    /\ [][lpc = "dead"
            => /\ lpc' = "dead" \/ (lpc' = "none" /\ ~handle')
               /\ appended' = appended /\ ReadsByCallers
               /\ pref' = pref => lists'[pref] = lists[pref]]_vars

\* The listener has ended on an error with a message in its list, and
\* bytes have arrived since that no one reads.
C19_Witness ==
    /\ lpc = "dead" /\ handle /\ lock = Free /\ alive = 0
    /\ Len(lists[pref]) = 1 /\ rx # <<>>

\* C20: stop_listening() ends the listener at once and what it had
\* accumulated is gone; with no listener nothing is appended and only
\* callers read; every scan of a caller or of a listener starts with one
\* empty field, no bytes read and no escape pending.
C20_StopDiscards ==
    /\ [][(handle /\ ~handle')
            => /\ lpc' = "none" /\ alive' = 0
               /\ lloc'.st = ReadLoopStart /\ lloc'.tmp = None]_vars
    /\ [][lpc = "none"
            => /\ appended' = appended /\ ReadsByCallers
               /\ lpc' \in {"none", "l_idle"}]_vars
    /\ [][/\ \A c \in Callers :
                (cpc[c] # "r_read" /\ cpc'[c] = "r_read")
                => cloc'[c].st = ReadLoopStart
          /\ (lpc # "l_read" /\ lpc' = "l_read")
                => lloc'.st = ReadLoopStart]_vars

\* The listener was stopped in the middle of a scan, one byte read: the
\* byte is in no message and the scan is gone.
C20_Witness ==
    /\ ~handle /\ lpc = "none" /\ lock.owner = "dead" /\ now = 1
    /\ appended = <<>> /\ lloc.st = ReadLoopStart
    /\ \A c \in Callers : cret[c].op = ""

(***************************************************************************)
(* The lock after stop_listening().                                        *)
(***************************************************************************)
\* C21: with no listener process the lock is free or held by a caller, so
\* that a send(), receive() or receive_from_listener() that waits for it
\* gets it once the callers holding it are done.
C21_StopFreesLock ==
    lpc = "none" => \E c \in Callers : CanAcquire(c)

(***************************************************************************)
(* The handle of the listener.                                             *)
(***************************************************************************)
\* C22: the handle is set exactly when a listener process is alive, and a
\* listen() made after the listener has ended on its own starts a new
\* listener.
C22_HandleMatchesListener ==
    /\ [](handle <=> ListenerAlive)
    /\ [][(lpc = "dead" /\ listen_delay' # listen_delay)
            => lpc' = "l_idle" /\ alive' = 1]_vars


(***************************************************************************)
(* The end of a scan on a line gone quiet.                                 *)
(***************************************************************************)
\* The reads of a scan hold no timeout but its last read, or its last two.
TimeoutsEndScan(st) ==
    \A i \in 1..Len(st.raw_msg) :
        st.raw_msg[i] = <<>>
        => \/ i = Len(st.raw_msg) /\ ~st.looping
           \/ /\ i = Len(st.raw_msg) - 1 => st.raw_msg[i + 1] = <<>>
              /\ i >= Len(st.raw_msg) - 1
              /\ i > 1 /\ st.raw_msg[i - 1] = <<_byte_escape_sep>>

\* C23: a timeout read with no escape pending ends the scan at once, the
\* lock released and receive() returning or raising; a timeout read with
\* an escape pending leaves the scan going with no escape pending, so that
\* a scan reads at most two timeouts in a row; and once the line is quiet
\* every receive() under way ends with the lock free.
C23_ReceiveTerminates ==
    /\ [][(cpc["main"] = "r_read" /\ rx = <<>>)
            => IF cloc["main"].st.escaped
               THEN /\ cpc'["main"] = "r_read" /\ lock' = lock
                    /\ cloc'["main"].st.looping
                    /\ ~cloc'["main"].st.escaped
               ELSE /\ cpc'["main"] = "idle" /\ lock' = Free
                    /\ cret'["main"].op = "receive"]_vars
    /\ [](TimeoutsEndScan(cloc["main"].st))
    /\ (cpc["main"] = "r_read") ~> (cpc["main"] = "idle" /\ lock = Free)

\* A receive() has ended on the second of two timeouts in a row, the
\* first of them read with an escape pending.
C23_Witness ==
    /\ cpc["main"] = "idle" /\ cret["main"].op = "receive" /\ lock = Free
    /\ LET r == cloc["main"].st.raw_msg
       IN  /\ Len(r) >= 3
           /\ r[Len(r) - 2] = <<_byte_escape_sep>>
           /\ r[Len(r) - 1] = <<>> /\ r[Len(r)] = <<>>
====
